---- MODULE Spec2Model ----
(***************************************************************************)
(* Model of streamlit_app.py: the question extractor                       *)
(* (extract_questions_with_year), the keyword chapter assigner             *)
(* (bulk_assign_by_keywords) and the chapter selection of main().          *)
(*                                                                         *)
(* Text is a sequence of one-character strings.  Offsets are 0-based as in *)
(* Python: offset p names the element t[p + 1].                            *)
(***************************************************************************)
EXTENDS Integers, Sequences, FiniteSets, TLC

\* ------------------------------------------------------------------------
\* Bounds of the model
\* ------------------------------------------------------------------------

\* pages per input document
MaxPages == 2

\* calls of the extractor in the re-run specification
MaxRuns == 3

\* ------------------------------------------------------------------------
\* Characters and the regular-expression character classes
\* ------------------------------------------------------------------------

Digits == <<"0", "1", "2", "3", "4", "5", "6", "7", "8", "9">>

UpperCase ==
    <<"A", "B", "C", "D", "E", "F", "G", "H", "I", "J", "K", "L", "M",
      "N", "O", "P", "Q", "R", "S", "T", "U", "V", "W", "X", "Y", "Z">>

LowerCase ==
    <<"a", "b", "c", "d", "e", "f", "g", "h", "i", "j", "k", "l", "m",
      "n", "o", "p", "q", "r", "s", "t", "u", "v", "w", "x", "y", "z">>

Range(s) == {s[k] : k \in 1..Len(s)}

DigitChars == Range(Digits)

UpperChars == Range(UpperCase)

WordChars == Range(Digits) \cup Range(UpperCase) \cup Range(LowerCase) \cup {"_"}

SpaceChars == {" ", "\n", "\t"}

\* \d
IsDigit(c) == c \in DigitChars

\* \s
IsSpace(c) == c \in SpaceChars

\* \w
IsWord(c) == c \in WordChars

\* the lower-case letter of each upper-case letter
LowerOf ==
    [c \in UpperChars |-> LowerCase[CHOOSE k \in 1..Len(UpperCase) : UpperCase[k] = c]]

\* str.lower() on one character
LowerChar(c) == IF c \in UpperChars THEN LowerOf[c] ELSE c

\* str.lower()
Lower(t) == [k \in 1..Len(t) |-> LowerChar(t[k])]

\* value of a decimal digit
DigitVal(c) == (CHOOSE k \in 1..Len(Digits) : Digits[k] = c) - 1

\* int(text) for a text of decimal digits
RECURSIVE ToInt(_)
ToInt(t) ==
    IF t = <<>> THEN 0
    ELSE 10 * ToInt(SubSeq(t, 1, Len(t) - 1)) + DigitVal(t[Len(t)])

\* str(n) for n >= 0, as formatted by an f-string
RECURSIVE ToText(_)
ToText(n) ==
    IF n < 10 THEN <<Digits[n + 1]>>
    ELSE ToText(n \div 10) \o <<Digits[(n % 10) + 1]>>

\* ------------------------------------------------------------------------
\* Slicing and matching primitives
\* ------------------------------------------------------------------------

\* t[p]
At(t, p) == t[p + 1]

\* t[a:b] for 0 <= a and b <= len(t); empty when b <= a
Slice(t, a, b) == SubSeq(t, a + 1, b)

\* the literal lit stands at offset p of t
LitAt(t, p, lit) ==
    /\ p + Len(lit) <= Len(t)
    /\ \A k \in 1..Len(lit) : t[p + k] = lit[k]

\* the literal lit stands at offset p of t, compared under re.IGNORECASE
LitAtNoCase(t, p, lit) ==
    /\ p + Len(lit) <= Len(t)
    /\ \A k \in 1..Len(lit) : LowerChar(t[p + k]) = LowerChar(lit[k])

\* the smallest element of a non-empty set of offsets
MinOf(S) == CHOOSE p \in S : \A q \in S : p <= q

\* the largest element of a non-empty set of offsets
MaxOf(S) == CHOOSE p \in S : \A q \in S : q <= p

\* end of the greedy run \s* starting at offset p
RECURSIVE SkipSpace(_, _)
SkipSpace(t, p) ==
    IF p < Len(t) /\ IsSpace(At(t, p)) THEN SkipSpace(t, p + 1) ELSE p

\* end of the greedy run \d* starting at offset p
RECURSIVE SkipDigits(_, _)
SkipDigits(t, p) ==
    IF p < Len(t) /\ IsDigit(At(t, p)) THEN SkipDigits(t, p + 1) ELSE p

\* end of the greedy run \w* starting at offset p
RECURSIVE SkipWord(_, _)
SkipWord(t, p) ==
    IF p < Len(t) /\ IsWord(At(t, p)) THEN SkipWord(t, p + 1) ELSE p

\* start of the whitespace run that ends at offset e
RECURSIVE RStripEnd(_, _)
RStripEnd(t, e) ==
    IF e > 0 /\ IsSpace(At(t, e - 1)) THEN RStripEnd(t, e - 1) ELSE e

\* str.strip(): leading and trailing whitespace removed
Strip(t) ==
    LET a == SkipSpace(t, 0)
        e == RStripEnd(t, Len(t))
    IN  Slice(t, a, e)

\* a match that failed
NoMatch == 0 - 1

\* 'Q. 1) What is CAPM? [4]'
PageCapm ==
    <<"Q", ".", " ", "1", ")", " ", "W", "h", "a", "t", " ", "i", "s", " ", "C", "A", "P", "M",
      "?", " ", "[", "4", "]">>

\* 'Q. 2) Explain ruin theory. **********'
PageRuinStars ==
    <<"Q", ".", " ", "2", ")", " ", "E", "x", "p", "l", "a", "i", "n", " ", "r", "u", "i", "n",
      " ", "t", "h", "e", "o", "r", "y", ".", " ", "*", "*", "*", "*", "*", "*", "*", "*", "*",
      "*">>

\* 'Q. 3) Define hazard rate. [12]\n'
PageHazard ==
    <<"Q", ".", " ", "3", ")", " ", "D", "e", "f", "i", "n", "e", " ", "h", "a", "z", "a", "r",
      "d", " ", "r", "a", "t", "e", ".", " ", "[", "1", "2", "]", "\n">>

\* 'Q. 10) Hi'
PageShort ==
    <<"Q", ".", " ", "1", "0", ")", " ", "H", "i">>

\* '2023 Year: 2022\n28th May 2024\nSession: 2021'
PageDates ==
    <<"2", "0", "2", "3", " ", "Y", "e", "a", "r", ":", " ", "2", "0", "2", "2", "\n", "2",
      "8", "t", "h", " ", "M", "a", "y", " ", "2", "0", "2", "4", "\n", "S", "e", "s", "s",
      "i", "o", "n", ":", " ", "2", "0", "2", "1">>

\* 'Session: 2021\nQ.1) Show that\n \n\n********* holds. [2]\nQ. 2) Explain ruin theory. [5] \n************\nEnd'
PageProof ==
    <<"S", "e", "s", "s", "i", "o", "n", ":", " ", "2", "0", "2", "1", "\n", "Q", ".", "1",
      ")", " ", "S", "h", "o", "w", " ", "t", "h", "a", "t", "\n", " ", "\n", "\n", "*", "*",
      "*", "*", "*", "*", "*", "*", "*", " ", "h", "o", "l", "d", "s", ".", " ", "[", "2", "]",
      "\n", "Q", ".", " ", "2", ")", " ", "E", "x", "p", "l", "a", "i", "n", " ", "r", "u",
      "i", "n", " ", "t", "h", "e", "o", "r", "y", ".", " ", "[", "5", "]", " ", "\n", "*",
      "*", "*", "*", "*", "*", "*", "*", "*", "*", "*", "*", "\n", "E", "n", "d">>

\* ------------------------------------------------------------------------
\* Program constants
\* ------------------------------------------------------------------------

\* a record is kept when len(complete_content) > 20
MinContent == 20

\* r'\*{10,}': the shortest run of stars that ends the last question
StarRun == 10

\* a preview line needs len(clean_line) > 10
MinPreviewLine == 10

\* a preview longer than 150 characters is cut and given an ellipsis
PreviewMax == 150

\* the literal "Unknown"
Unknown == <<"U", "n", "k", "n", "o", "w", "n">>

\* Python None for the year: a captured year is never empty
NoYear == <<>>

\* Python None for the chapter of a record
None == "None"

\* ------------------------------------------------------------------------
\* The year patterns (IGNORECASE), each searched in the whole text
\* ------------------------------------------------------------------------

\* (20\d{2}) stands at offset p
YearAt(t, p) ==
    /\ LitAt(t, p, <<"2", "0">>)
    /\ p + 4 <= Len(t)
    /\ IsDigit(At(t, p + 2))
    /\ IsDigit(At(t, p + 3))

\* r"(\d{1,2})\s*(?:st|nd|rd|th)\s+\w+\s+(20\d{2})" matched at offset p:
\* the groups (day, year), or <<>> when there is no match at p
DayMonthYearAt(t, p) ==
    LET d == SkipDigits(t, p)
        a == SkipSpace(t, d)
        b == a + 2
        c == SkipSpace(t, b)
        w == SkipWord(t, c)
        e == SkipSpace(t, w)
    IN  IF /\ d - p \in {1, 2}
           /\ \/ LitAtNoCase(t, a, <<"s", "t">>)
              \/ LitAtNoCase(t, a, <<"n", "d">>)
              \/ LitAtNoCase(t, a, <<"r", "d">>)
              \/ LitAtNoCase(t, a, <<"t", "h">>)
           /\ c > b
           /\ w > c
           /\ e > w
           /\ YearAt(t, e)
        THEN <<Slice(t, p, d), Slice(t, e, e + 4)>>
        ELSE <<>>

\* r"(20\d{2})" matched at offset p: the groups, or <<>>
BareYearAt(t, p) ==
    IF YearAt(t, p) THEN <<Slice(t, p, p + 4)>> ELSE <<>>

\* label\s*:?\s*(20\d{2}) matched at offset p: the groups, or <<>>
LabelledYearAt(t, p, label) ==
    LET a == SkipSpace(t, p + Len(label))
        b == IF a < Len(t) /\ At(t, a) = ":" THEN a + 1 ELSE a
        e == SkipSpace(t, b)
    IN  IF LitAtNoCase(t, p, label) /\ YearAt(t, e)
        THEN <<Slice(t, e, e + 4)>>
        ELSE <<>>

\* the groups of pattern pat matched at offset p of t, or <<>>
PatternAt(pat, t, p) ==
    CASE pat = "day_month_year" -> DayMonthYearAt(t, p)
      [] pat = "bare_year"      -> BareYearAt(t, p)
      [] pat = "year_label"     -> LabelledYearAt(t, p, <<"Y", "e", "a", "r">>)
      [] pat = "session_label"  ->
            LabelledYearAt(t, p, <<"S", "e", "s", "s", "i", "o", "n">>)

\* re.search(pat, t, re.IGNORECASE): the groups of the leftmost match, or <<>>
SearchYear(pat, t) ==
    LET hits == {p \in 0..(Len(t) - 1) : PatternAt(pat, t, p) # <<>>}
    IN  IF hits = {} THEN <<>> ELSE PatternAt(pat, t, MinOf(hits))

\* the pattern list in the order the loop tries it
year_patterns_bare_first ==
    <<"bare_year", "day_month_year", "year_label", "session_label">>

year_patterns ==
    <<"day_month_year", "bare_year", "year_label", "session_label">>

\* the loop over year_patterns from pattern k on: the first match decides
RECURSIVE YearLoop(_, _)
YearLoop(t, k) ==
    IF k > Len(year_patterns) THEN NoYear
    ELSE LET groups == SearchYear(year_patterns[k], t)
         IN  IF groups # <<>>
             THEN IF year_patterns[k] = "day_month_year"
                  THEN groups[2]
                  ELSE groups[Len(groups)]
             ELSE YearLoop(t, k + 1)

\* ------------------------------------------------------------------------
\* The question marker r"Q\.\s*(\d+)\)"
\* ------------------------------------------------------------------------

\* offset where the digits of a marker standing at p begin
QuestionDigits(t, p) == SkipSpace(t, p + 2)

\* end offset of the marker matched at offset p, or NoMatch
QuestionEnd(t, p) ==
    LET a == QuestionDigits(t, p)
        b == SkipDigits(t, a)
    IN  IF /\ LitAt(t, p, <<"Q", ".">>)
           /\ b > a
           /\ b < Len(t)
           /\ At(t, b) = ")"
        THEN b + 1
        ELSE NoMatch

\* int(match.group(1)) of the marker matched at offset p
QuestionNumber(t, p) ==
    LET a == QuestionDigits(t, p)
    IN  ToInt(Slice(t, a, SkipDigits(t, a)))

\* offsets from p on where the marker pattern matches
QuestionHits(t, p) == {q \in p..(Len(t) - 1) : QuestionEnd(t, q) # NoMatch}

\* re.finditer(question_pattern, t) from offset p: the start offsets of the
\* non-overlapping matches, left to right, each search resuming at the end
\* of the match before
RECURSIVE FindQuestions(_, _)
FindQuestions(t, p) ==
    LET hits == QuestionHits(t, p)
    IN  IF hits = {} THEN <<>>
        ELSE <<MinOf(hits)>> \o FindQuestions(t, QuestionEnd(t, MinOf(hits)))

\* re.sub(question_pattern, '', t) from offset p
RECURSIVE RemoveQuestions(_, _)
RemoveQuestions(t, p) ==
    LET hits == QuestionHits(t, p)
    IN  IF hits = {} THEN Slice(t, p, Len(t))
        ELSE Slice(t, p, MinOf(hits))
             \o RemoveQuestions(t, QuestionEnd(t, MinOf(hits)))

\* ------------------------------------------------------------------------
\* End marker, page sentinel, blank lines, marks
\* ------------------------------------------------------------------------

\* r'\*{10,}' matches at offset p
StarsAt(t, p) ==
    /\ p + StarRun <= Len(t)
    /\ \A k \in 1..StarRun : t[p + k] = "*"

\* start offsets, relative to t, of the matches of r'\*{10,}' in t[from:];
\* the first one is end_markers[0].start() + from
FirstStars(t, from) ==
    LET hits == {p \in from..(Len(t) - 1) : StarsAt(t, p)}
    IN  IF hits = {} THEN NoMatch ELSE MinOf(hits)

\* the text f"\n--- PAGE {page_num} ---\n" put before a page
Sentinel(page_num) ==
    <<"\n", "-", "-", "-", " ", "P", "A", "G", "E", " ">>
    \o ToText(page_num) \o <<" ", "-", "-", "-", "\n">>

\* end offset of r'\n--- PAGE \d+ ---\n' matched at offset p, or NoMatch
SentinelEnd(t, p) ==
    LET a == p + 10
        b == SkipDigits(t, a)
    IN  IF /\ LitAt(t, p, <<"\n", "-", "-", "-", " ", "P", "A", "G", "E", " ">>)
           /\ b > a
           /\ LitAt(t, b, <<" ", "-", "-", "-", "\n">>)
        THEN b + 5
        ELSE NoMatch

\* offsets from p on where the sentinel pattern matches
SentinelHits(t, p) == {q \in p..(Len(t) - 1) : SentinelEnd(t, q) # NoMatch}

\* re.sub(r'\n--- PAGE \d+ ---\n', '\n', t) from offset p
RECURSIVE SubSentinel(_, _)
SubSentinel(t, p) ==
    LET hits == SentinelHits(t, p)
    IN  IF hits = {} THEN Slice(t, p, Len(t))
        ELSE Slice(t, p, MinOf(hits)) \o <<"\n">>
             \o SubSentinel(t, SentinelEnd(t, MinOf(hits)))

\* end offset of r'\n\s*\n\s*\n' matched at offset p, or NoMatch: the match
\* runs from a newline to the last newline of its whitespace run when the
\* run holds three newlines or more
BlankEnd(t, p) ==
    LET r  == SkipSpace(t, p)
        nl == {q \in p..(r - 1) : At(t, q) = "\n"}
    IN  IF p < Len(t) /\ At(t, p) = "\n" /\ Cardinality(nl) >= 3
        THEN MaxOf(nl) + 1
        ELSE NoMatch

\* offsets from p on where the blank-run pattern matches
BlankHits(t, p) == {q \in p..(Len(t) - 1) : BlankEnd(t, q) # NoMatch}

\* re.sub(r'\n\s*\n\s*\n', '\n\n', t) from offset p
RECURSIVE SubBlank(_, _)
SubBlank(t, p) ==
    LET hits == BlankHits(t, p)
    IN  IF hits = {} THEN Slice(t, p, Len(t))
        ELSE Slice(t, p, MinOf(hits)) \o <<"\n", "\n">>
             \o SubBlank(t, BlankEnd(t, MinOf(hits)))

\* lines 82-87: the slice stripped, sentinels and blank runs replaced,
\* stripped again
Clean(raw) == Strip(SubBlank(SubSentinel(Strip(raw), 0), 0))

\* r'\[(\d+)\]\s*$' matches at offset p
MarksAt(t, p) ==
    LET b == SkipDigits(t, p + 1)
    IN  /\ p < Len(t)
        /\ At(t, p) = "["
        /\ b > p + 1
        /\ b < Len(t)
        /\ At(t, b) = "]"
        /\ SkipSpace(t, b + 1) = Len(t)

\* the same pattern without its end anchor
MarksAtAnywhere(t, p) ==
    LET b == SkipDigits(t, p + 1)
    IN  /\ p < Len(t)
        /\ At(t, p) = "["
        /\ b > p + 1
        /\ b < Len(t)
        /\ At(t, b) = "]"

\* lines 90-92: group 1 of the leftmost match, else "Unknown"
SearchMarksUnanchored(t) ==
    LET hits == {p \in 0..(Len(t) - 1) : MarksAtAnywhere(t, p)}
    IN  IF hits = {} THEN Unknown
        ELSE Slice(t, MinOf(hits) + 1, SkipDigits(t, MinOf(hits) + 1))

SearchMarks(t) ==
    LET hits == {p \in 0..(Len(t) - 1) : MarksAt(t, p)}
    IN  IF hits = {} THEN Unknown
        ELSE Slice(t, MinOf(hits) + 1, SkipDigits(t, MinOf(hits) + 1))

\* ------------------------------------------------------------------------
\* The preview (lines 96-110)
\* ------------------------------------------------------------------------

\* t.split('\n') from offset a on
RECURSIVE SplitLines(_, _)
SplitLines(t, a) ==
    LET nl == {q \in a..(Len(t) - 1) : At(t, q) = "\n"}
    IN  IF nl = {} THEN <<Slice(t, a, Len(t))>>
        ELSE <<Slice(t, a, MinOf(nl))>> \o SplitLines(t, MinOf(nl) + 1)

\* re.sub(r'Q\.\s*\d+\)', '', line).strip()
CleanLine(line) == Strip(RemoveQuestions(line, 0))

\* the loop of lines 99-103 from line k on: the first line whose cleaned
\* form is longer than 10 characters, else the empty text
RECURSIVE FirstLongLine(_, _)
FirstLongLine(lines, k) ==
    IF k > Len(lines) THEN <<>>
    ELSE IF CleanLine(lines[k]) # <<>> /\ Len(CleanLine(lines[k])) > MinPreviewLine
         THEN CleanLine(lines[k])
         ELSE FirstLongLine(lines, k + 1)

\* lines 97-110: the question_preview of a cleaned content
Preview(content) ==
    LET lines == SplitLines(content, 0)
        found == FirstLongLine(lines, 1)
        preview_text ==
            IF found # <<>> THEN found
            ELSE IF lines # <<>> THEN lines[1] ELSE content
    IN  IF Len(preview_text) > PreviewMax
        THEN SubSeq(preview_text, 1, PreviewMax) \o <<".", ".", ".">>
        ELSE preview_text

\* ------------------------------------------------------------------------
\* Inputs
\* ------------------------------------------------------------------------

\* a page whose extract_text() gives no text
PageEmpty == <<>>

\* the page texts the documents are built from
PageTexts ==
    {PageEmpty, PageCapm, PageRuinStars, PageHazard, PageShort, PageDates,
     PageProof}

\* the documents: every sequence of 1..MaxPages pages
Docs == UNION {[1..n -> PageTexts] : n \in 1..MaxPages}

\* the documents of the re-run specification
RerunDocs ==
    {<<PageCapm, PageRuinStars>>, <<PageRuinStars, PageCapm>>,
     <<PageHazard, PageHazard>>, <<PageDates, PageProof>>, <<PageShort>>,
     <<PageEmpty>>}

\* the documents of the session specification
SessionDocs ==
    {<<PageCapm, PageRuinStars>>, <<PageHazard, PageHazard>>,
     <<PageHazard \o PageHazard>>, <<PageDates, PageProof>>,
     <<PageCapm, PageShort>>}

\* chapter_names of the sidebar (line 255) for two chapters
chapter_names == <<"Chapter 1", "Chapter 2">>

\* the first option of every chapter selectbox (line 421)
SelectPrompt == "-- Select Chapter --"

\* keyword mappings as built by lines 310-322: chapters in chapter_names
\* order, a chapter without keywords left out
KeywordMappings ==
    {<<[chapter |-> "Chapter 1", keywords |-> <<<<"c", "a", "p", "m">>>>],
       [chapter |-> "Chapter 2",
        keywords |-> <<<<"z", "z", "z">>, <<"R", "u", "i", "n">>>>]>>,
     <<[chapter |-> "Chapter 1", keywords |-> <<<<"T", "H", "E", "O", "R", "Y">>>>],
       [chapter |-> "Chapter 2",
        keywords |-> <<<<"r", "u", "i", "n">>, <<"i", "s">>>>]>>,
     <<[chapter |-> "Chapter 2", keywords |-> <<<<"z", "z", "z">>>>]>>}

\* ------------------------------------------------------------------------
\* State
\* ------------------------------------------------------------------------

VARIABLES
    pdf_file,            \* the pages of the uploaded document, in page order
    pc,                  \* "read", "scan", "sort", "extract" or "session"
    page_num,            \* pages read so far (line 18), then the page of the
                         \* marker scanned last (line 53)
    all_text,            \* line 13
    page_breaks,         \* line 14: the entries in insertion order
    current_year,        \* line 12
    question_positions,  \* line 47
    i,                   \* iterations of the loop of line 69 completed
    end_pos,             \* lines 72-79, of the last iteration
    complete_content,    \* lines 82-87, of the last iteration
    marks,               \* line 92, of the last iteration
    questions_data,      \* line 11
    questions,           \* st.session_state.questions; <<>> when absent
    returned,            \* history: the document and result of each call
    last_bulk,           \* history: the list before and the mapping of the bulk
                         \* assignment that was the last step, else <<>>
    last_select          \* history: the list before, the displayed record and
                         \* the chapter of the selection that was the last
                         \* step, else <<>>

vars ==
    <<pdf_file, pc, page_num, all_text, page_breaks, current_year,
      question_positions, i, end_pos, complete_content, marks, questions_data,
      questions, returned, last_bulk, last_select>>

locals ==
    <<page_num, all_text, page_breaks, current_year, question_positions, i,
      end_pos, complete_content, marks, questions_data>>

\* lines 11-14: the locals of a fresh call
Enter ==
    /\ page_num = 0
    /\ all_text = <<>>
    /\ page_breaks = <<>>
    /\ current_year = NoYear
    /\ question_positions = <<>>
    /\ i = 0
    /\ end_pos = 0
    /\ complete_content = <<>>
    /\ marks = <<>>
    /\ questions_data = <<>>

\* the state when the extractor is entered with the document doc
Start(doc) ==
    /\ pdf_file = doc
    /\ pc = "read"
    /\ Enter
    /\ questions = <<>>
    /\ returned = <<>>
    /\ last_bulk = <<>>
    /\ last_select = <<>>

Init == \E doc \in Docs : Start(doc)

\* ------------------------------------------------------------------------
\* extract_questions_with_year
\* ------------------------------------------------------------------------

\* lines 18-24: one page of the document
ReadPage ==
    /\ pc = "read"
    /\ page_num < Len(pdf_file)
    /\ page_num' = page_num + 1
    /\ LET text == pdf_file[page_num + 1]
       IN  IF text = <<>>
           THEN UNCHANGED <<all_text, page_breaks>>
           ELSE /\ page_breaks' =
                     Append(page_breaks, [pos |-> Len(all_text), page |-> page_num + 1])
                /\ all_text' = all_text \o Sentinel(page_num + 1) \o text
    /\ UNCHANGED <<pdf_file, pc, current_year, question_positions, i, end_pos,
                   complete_content, marks, questions_data, questions, returned,
                   last_bulk, last_select>>

\* lines 27-42: the year of the document
InferYear ==
    /\ pc = "read"
    /\ page_num = Len(pdf_file)
    /\ current_year' = YearLoop(all_text, 1)
    /\ pc' = "scan"
    /\ UNCHANGED <<pdf_file, page_num, all_text, page_breaks, question_positions,
                   i, end_pos, complete_content, marks, questions_data, questions,
                   returned, last_bulk, last_select>>

\* lines 53-56 with a break after the assignment: the page of the first entry
\* whose offset is at most start_pos
RECURSIVE PageLoopFirstEntry(_, _, _, _)
PageLoopFirstEntry(breaks, start_pos, k, found) ==
    IF k > Len(breaks) THEN found
    ELSE IF start_pos >= breaks[k].pos THEN breaks[k].page
         ELSE PageLoopFirstEntry(breaks, start_pos, k + 1, found)

\* lines 53-56: the page of the last entry of breaks, from entry k on, whose
\* offset is at most start_pos; found is the page found so far
RECURSIVE PageLoop(_, _, _, _)
PageLoop(breaks, start_pos, k, found) ==
    IF k > Len(breaks) THEN found
    ELSE PageLoop(breaks, start_pos, k + 1,
                  IF start_pos >= breaks[k].pos THEN breaks[k].page ELSE found)

PageOf(breaks, start_pos) == PageLoop(breaks, start_pos, 1, 1)

\* lines 47-63: every marker of the text, in scan order
FindMarkers ==
    /\ pc = "scan"
    /\ LET starts == FindQuestions(all_text, 0)
       IN  /\ question_positions' =
                [k \in 1..Len(starts) |->
                    [number |-> QuestionNumber(all_text, starts[k]),
                     start  |-> starts[k],
                     page   |-> PageOf(page_breaks, starts[k])]]
           /\ page_num' =
                IF starts = <<>> THEN page_num
                ELSE PageOf(page_breaks, starts[Len(starts)])
    /\ pc' = "sort"
    /\ UNCHANGED <<pdf_file, all_text, page_breaks, current_year, i, end_pos,
                   complete_content, marks, questions_data, questions, returned,
                   last_bulk, last_select>>

\* q put into the sorted list s before the first entry of a greater number
RECURSIVE InsertAfterEqual(_, _)
InsertAfterEqual(s, q) ==
    IF s = <<>> THEN <<q>>
    ELSE IF s[1].number > q.number THEN <<q>> \o s
         ELSE <<s[1]>> \o InsertAfterEqual(Tail(s), q)

\* q put into the sorted list s before the first entry of an equal or
\* greater number
RECURSIVE InsertBeforeEqual(_, _)
InsertBeforeEqual(s, q) ==
    IF s = <<>> THEN <<q>>
    ELSE IF s[1].number >= q.number THEN <<q>> \o s
         ELSE <<s[1]>> \o InsertBeforeEqual(Tail(s), q)

\* a sort by number that reverses entries of equal numbers
RECURSIVE SortUnstable(_)
SortUnstable(s) ==
    IF s = <<>> THEN <<>>
    ELSE InsertBeforeEqual(SortUnstable(SubSeq(s, 1, Len(s) - 1)), s[Len(s)])

\* q put into the descending list s after the entries of a greater or equal
\* number
RECURSIVE InsertDescending(_, _)
InsertDescending(s, q) ==
    IF s = <<>> THEN <<q>>
    ELSE IF s[1].number < q.number THEN <<q>> \o s
         ELSE <<s[1]>> \o InsertDescending(Tail(s), q)

\* a sort by number with the order reversed
RECURSIVE SortDescending(_)
SortDescending(s) ==
    IF s = <<>> THEN <<>>
    ELSE InsertDescending(SortDescending(SubSeq(s, 1, Len(s) - 1)), s[Len(s)])

\* line 66: list.sort(key=number), a stable sort
RECURSIVE SortByNumber(_)
SortByNumber(s) ==
    IF s = <<>> THEN <<>>
    ELSE InsertAfterEqual(SortByNumber(SubSeq(s, 1, Len(s) - 1)), s[Len(s)])

\* line 66
SortMarkers ==
    /\ pc = "sort"
    /\ question_positions' = SortByNumber(question_positions)
    /\ pc' = "extract"
    /\ UNCHANGED <<pdf_file, page_num, all_text, page_breaks, current_year, i,
                   end_pos, complete_content, marks, questions_data, questions,
                   returned, last_bulk, last_select>>

\* lines 71-79 with the end marker searched in the whole text
EndPosFromTextStart(text, positions, k) ==
    IF k + 1 < Len(positions) THEN positions[k + 2].start
    ELSE IF FirstStars(text, 0) # NoMatch
         THEN FirstStars(text, 0)
         ELSE Len(text)

\* lines 71-79: the end of the span of the marker of 0-based index k
EndPos(text, positions, k) ==
    IF k + 1 < Len(positions) THEN positions[k + 2].start
    ELSE IF FirstStars(text, positions[k + 1].start) # NoMatch
         THEN FirstStars(text, positions[k + 1].start)
         ELSE Len(text)

\* lines 108-116: the record of one question
Record(q_pos, content, the_marks, year) ==
    [question_number  |-> q_pos.number,
     question_preview |-> Preview(content),
     complete_content |-> content,
     marks            |-> the_marks,
     chapter          |-> None,
     year             |-> IF year # NoYear THEN year ELSE Unknown,
     page             |-> q_pos.page]

\* a test that keeps every content but the empty one
KeepNonEmpty(content) == Len(content) > 0

\* line 95: the content is long enough for a record
Keep(content) == Len(content) > MinContent

\* lines 69-116: one iteration of the loop over the sorted markers
ExtractQuestion ==
    /\ pc = "extract"
    /\ i < Len(question_positions)
    /\ LET q_pos   == question_positions[i + 1]
           end     == EndPos(all_text, question_positions, i)
           content == Clean(Slice(all_text, q_pos.start, end))
           found   == SearchMarks(content)
       IN  /\ end_pos' = end
           /\ complete_content' = content
           /\ marks' = found
           /\ questions_data' =
                IF Keep(content)
                THEN Append(questions_data, Record(q_pos, content, found, current_year))
                ELSE questions_data
    /\ i' = i + 1
    /\ UNCHANGED <<pdf_file, pc, page_num, all_text, page_breaks, current_year,
                   question_positions, questions, returned, last_bulk,
                   last_select>>

\* line 118 is reached: the loop is over and questions_data is the result
AtReturn == pc = "extract" /\ i = Len(question_positions)

\* line 118 and lines 264-270: the result goes to the caller, which keeps a
\* non-empty one in the session
Return ==
    /\ AtReturn
    /\ pc' = "session"
    /\ questions' = IF questions_data # <<>> THEN questions_data ELSE questions
    /\ returned' = Append(returned, [pdf |-> pdf_file, result |-> questions_data])
    /\ UNCHANGED <<pdf_file, locals, last_bulk, last_select>>

\* ------------------------------------------------------------------------
\* bulk_assign_by_keywords and the chapter selection of main()
\* ------------------------------------------------------------------------

\* sub in t
Contains(t, sub) == \E p \in 0..(Len(t) - Len(sub)) : LitAt(t, p, sub)

\* line 214: any keyword of the list occurs in question_lower
AnyKeyword(keywords, question_lower) ==
    \E k \in 1..Len(keywords) : Contains(question_lower, Lower(keywords[k]))

\* lines 213-216 without the break: the last matching chapter wins
RECURSIVE AssignLastMatch(_, _, _)
AssignLastMatch(q, keyword_mapping, k) ==
    IF k > Len(keyword_mapping) THEN q
    ELSE AssignLastMatch(
            IF AnyKeyword(keyword_mapping[k].keywords, Lower(q.question_preview))
            THEN [q EXCEPT !.chapter = keyword_mapping[k].chapter]
            ELSE q,
            keyword_mapping, k + 1)

\* lines 212-216: the loop over the mapping from entry k on for one question
RECURSIVE AssignChapter(_, _, _)
AssignChapter(q, keyword_mapping, k) ==
    IF k > Len(keyword_mapping) THEN q
    ELSE IF AnyKeyword(keyword_mapping[k].keywords, Lower(q.question_preview))
         THEN [q EXCEPT !.chapter = keyword_mapping[k].chapter]
         ELSE AssignChapter(q, keyword_mapping, k + 1)

\* lines 209-217
bulk_assign_by_keywords(qs, keyword_mapping) ==
    [k \in 1..Len(qs) |-> AssignChapter(qs[k], keyword_mapping, 1)]

\* lines 324-326: the bulk assignment button with a non-empty mapping; the
\* script run that st.rerun() (line 328) starts is made of SelectChapter steps
BulkAssign(keyword_mapping) ==
    /\ pc = "session"
    /\ questions # <<>>
    /\ keyword_mapping # <<>>
    /\ questions' = bulk_assign_by_keywords(questions, keyword_mapping)
    /\ last_bulk' = <<[before |-> questions, mapping |-> keyword_mapping]>>
    /\ last_select' = <<>>
    /\ UNCHANGED <<pdf_file, pc, locals, returned>>

\* lines 404-405: the first record of the list with the number and the page
\* of q
OriginalIdx(qs, q) ==
    MinOf({idx \in 1..Len(qs) :
              /\ qs[idx].question_number = q.question_number
              /\ qs[idx].page = q.page})

\* lines 403-427 for one displayed record, j its index in the session's list
\* (the filters of lines 354-362 choose the records displayed), and the value
\* the selectbox returns, which is the user's: the write of line 427 goes to
\* the record lines 404-405 find
SelectChapter(j, selected_chapter) ==
    /\ pc = "session"
    /\ j \in 1..Len(questions)
    /\ questions' =
          [questions EXCEPT ![OriginalIdx(questions, questions[j])].chapter =
                                selected_chapter]
    /\ last_bulk' = <<>>
    /\ last_select' =
          <<[before |-> questions, shown |-> j, chapter |-> selected_chapter]>>
    /\ UNCHANGED <<pdf_file, pc, locals, returned>>

\* lines 262-264 again with questions_data surviving the call before
OpenKeepingResults(doc) ==
    /\ pc = "session"
    /\ Len(returned) < MaxRuns
    /\ pdf_file' = doc
    /\ pc' = "read"
    /\ page_num' = 0
    /\ all_text' = <<>>
    /\ page_breaks' = <<>>
    /\ current_year' = NoYear
    /\ question_positions' = <<>>
    /\ i' = 0
    /\ end_pos' = 0
    /\ complete_content' = <<>>
    /\ marks' = <<>>
    /\ UNCHANGED <<questions_data, questions, returned, last_bulk, last_select>>

\* lines 262-264 again: the extract button pressed for another upload; the
\* call starts from fresh locals (lines 11-14)
Open(doc) ==
    /\ pc = "session"
    /\ Len(returned) < MaxRuns
    /\ pdf_file' = doc
    /\ pc' = "read"
    /\ page_num' = 0
    /\ all_text' = <<>>
    /\ page_breaks' = <<>>
    /\ current_year' = NoYear
    /\ question_positions' = <<>>
    /\ i' = 0
    /\ end_pos' = 0
    /\ complete_content' = <<>>
    /\ marks' = <<>>
    /\ questions_data' = <<>>
    /\ UNCHANGED <<questions, returned, last_bulk, last_select>>

\* ------------------------------------------------------------------------
\* Specifications
\* ------------------------------------------------------------------------

\* extract_questions_with_year from its entry to its return
Extract ==
    \/ ReadPage
    \/ InferYear
    \/ FindMarkers
    \/ SortMarkers
    \/ ExtractQuestion
    \/ Return

\* one call of the extractor on every document
Next == Extract

Spec == Init /\ [][Next]_vars

\* a session: one call of the extractor, then chapter assignments
InitSession == \E doc \in SessionDocs : Start(doc)

NextSession ==
    \/ Extract
    \/ \E m \in KeywordMappings : BulkAssign(m)
    \/ \E j \in 1..Len(questions) :
          \E c \in {SelectPrompt} \cup Range(chapter_names) : SelectChapter(j, c)

SpecSession == InitSession /\ [][NextSession]_vars

\* the extractor called again and again in one session
InitRerun == \E doc \in RerunDocs : Start(doc)

NextRerun ==
    \/ Extract
    \/ \E doc \in RerunDocs : Open(doc)

SpecRerun == InitRerun /\ [][NextRerun]_vars

\* ------------------------------------------------------------------------
\* Notions the claims are stated with
\* ------------------------------------------------------------------------

\* the markers of the text in the order they stand in it
Scanned == FindQuestions(all_text, 0)

\* the number of the k-th marker of the text
ScannedNumber(k) == QuestionNumber(all_text, Scanned[k])

\* a run of ten stars begins at offset p of the text
TenStarsAt(p) ==
    /\ p + 10 <= Len(all_text)
    /\ \A q \in p..(p + 9) : At(all_text, q) = "*"

\* where the text of the k-th marker of the text ends: at the marker that
\* follows it in the text, else at the first run of stars after it, else at
\* the end of the text
TextEnd(k) ==
    IF k < Len(Scanned) THEN Scanned[k + 1]
    ELSE LET runs == {p \in Scanned[k]..Len(all_text) : TenStarsAt(p)}
         IN  IF runs = {} THEN Len(all_text) ELSE MinOf(runs)

\* the cleaned text that follows the k-th marker of the text
TextOf(k) == Clean(Slice(all_text, Scanned[k], TextEnd(k)))

\* the numbers of the records of a list, in order
Numbers(qs) == [k \in 1..Len(qs) |-> qs[k].question_number]

\* the cleaned span of the k-th marker of the sorted list, as the loop of
\* line 69 takes it
SpanOf(k) ==
    Clean(Slice(all_text, question_positions[k].start,
                EndPos(all_text, question_positions, k - 1)))

\* the sorted markers whose cleaned span is longer than 20 characters
LongSpans == {k \in 1..Len(question_positions) : Len(SpanOf(k)) > 20}

\* the r-th smallest element of a set of indices
Nth(S, r) == CHOOSE k \in S : Cardinality({m \in S : m < k}) = r - 1

\* ------------------------------------------------------------------------
\* C1
\* ------------------------------------------------------------------------

\* the markers of the text are numbered 1..N in text order and the text of
\* each is longer than 20 characters after cleanup
InOrderDocument ==
    /\ \A k \in 1..Len(Scanned) : ScannedNumber(k) = k
    /\ \A k \in 1..Len(Scanned) : Len(TextOf(k)) > 20

\* C1: when the markers "Q. k)" of the text are numbered 1..N in text order
\* and every question span is longer than 20 characters after cleanup, the
\* call returns exactly N records numbered 1, 2, ..., N in that order.
C1_InOrderRecords ==
    (AtReturn /\ InOrderDocument)
        => Numbers(questions_data) = [k \in 1..Len(Scanned) |-> k]

\* a document of two markers in order has been extracted
C1_Witness ==
    /\ AtReturn
    /\ InOrderDocument
    /\ Len(Scanned) >= 2

\* ------------------------------------------------------------------------
\* C2
\* ------------------------------------------------------------------------

\* where the page of the k-th marker of the text ends: at the sentinel of
\* the next page, else at the end of the text
PageEnd(k) ==
    LET tags == {p \in Scanned[k]..Len(all_text) :
                    LitAt(all_text, p, <<"\n", "-", "-", "-", " ", "P", "A", "G", "E", " ">>)}
    IN  IF tags = {} THEN Len(all_text) ELSE MinOf(tags)

\* the question text of the k-th marker of the text on its own page, cleaned:
\* no page sentinel is counted
OwnText(k) ==
    Clean(Slice(all_text, Scanned[k],
                IF PageEnd(k) < TextEnd(k) THEN PageEnd(k) ELSE TextEnd(k)))

\* some marker stands in the text before a marker of a smaller number, and
\* each marker is followed by more than 20 characters of question text
OutOfOrderDocument ==
    /\ \E a, b \in 1..Len(Scanned) : a < b /\ ScannedNumber(a) > ScannedNumber(b)
    /\ \A k \in 1..Len(Scanned) : Len(OwnText(k)) > 20

\* C2: when markers stand in the text out of numeric order, each followed by
\* more than 20 characters of question text, the call still returns one
\* record per marker, the numbers ascending.
C2_OutOfOrderRecords ==
    (AtReturn /\ OutOfOrderDocument)
        => /\ Len(questions_data) = Len(Scanned)
           /\ \A k \in 1..(Len(questions_data) - 1) :
                 questions_data[k].question_number
                    <= questions_data[k + 1].question_number

\* ------------------------------------------------------------------------
\* C3
\* ------------------------------------------------------------------------

\* C3: for page 1 = "Q. 1) What is CAPM? [4]" and page 2 =
\* "Q. 2) Explain ruin theory. **********" the call returns exactly 2
\* records, the first with marks "4" on page 1, the second with marks
\* "Unknown" on page 2.
C3_TwoPageExample ==
    (AtReturn /\ pdf_file = <<PageCapm, PageRuinStars>>)
        => /\ Len(questions_data) = 2
           /\ questions_data[1].marks = <<"4">>
           /\ questions_data[1].page = 1
           /\ questions_data[2].marks = Unknown
           /\ questions_data[2].page = 2

\* ------------------------------------------------------------------------
\* C4
\* ------------------------------------------------------------------------

\* C4: the returned list is ascending by question_number; records of equal
\* numbers stand in the order their markers were scanned in the text; and
\* markers of the same number are never merged: each marker whose span is
\* longer than 20 characters has its own record, so two such markers of one
\* number give two adjacent records.
C4_SortedStableUnmerged ==
    AtReturn =>
        /\ \A k \in 1..(Len(questions_data) - 1) :
              questions_data[k].question_number
                 <= questions_data[k + 1].question_number
        /\ \A a, b \in 1..Len(question_positions) :
              (a < b /\ question_positions[a].number = question_positions[b].number)
                 => question_positions[a].start < question_positions[b].start
        /\ Len(questions_data) = Cardinality(LongSpans)
        /\ \A r \in 1..Len(questions_data) :
              /\ questions_data[r].question_number =
                    question_positions[Nth(LongSpans, r)].number
              /\ questions_data[r].page = question_positions[Nth(LongSpans, r)].page
              /\ questions_data[r].complete_content = SpanOf(Nth(LongSpans, r))
        /\ \A a, b \in LongSpans :
              (a < b /\ question_positions[a].number = question_positions[b].number)
                 => \E r \in 1..(Len(questions_data) - 1) :
                       /\ questions_data[r].complete_content = SpanOf(a)
                       /\ questions_data[r + 1].question_number
                             = questions_data[r].question_number

\* two markers of one number, each with a long span, have been extracted
C4_Witness ==
    /\ AtReturn
    /\ \E a, b \in LongSpans :
          /\ a < b
          /\ question_positions[a].number = question_positions[b].number
    /\ \E r \in 1..(Len(questions_data) - 1) :
          questions_data[r].question_number = questions_data[r + 1].question_number

\* ------------------------------------------------------------------------
\* C5
\* ------------------------------------------------------------------------

\* the loop of line 69 has just handled the marker of 1-based index i
JustHandled == pc = "extract" /\ i >= 1

\* C5: the span of a marker of the sorted list runs from its own start to
\* the start of the next marker of the list; the span of the last marker
\* runs to the first run of ten or more stars after its start, the content
\* ending before the stars, and to the end of the text when there is no
\* such run.
C5_SpanBounds ==
    JustHandled =>
        LET start == question_positions[i].start
        IN  /\ complete_content = Clean(Slice(all_text, start, end_pos))
            /\ i < Len(question_positions)
                  => end_pos = question_positions[i + 1].start
            /\ i = Len(question_positions)
                  => /\ start <= end_pos
                     /\ \A p \in start..(end_pos - 1) : ~TenStarsAt(p)
                     /\ TenStarsAt(end_pos) \/ end_pos = Len(all_text)
                     /\ \A p \in 0..Len(complete_content) :
                           ~StarsAt(complete_content, p)

\* the last marker of a list of two has been handled and its span was cut
\* at a run of stars
C5_Witness ==
    /\ JustHandled
    /\ i = Len(question_positions)
    /\ i >= 2
    /\ TenStarsAt(end_pos)
    /\ Len(complete_content) > 20

\* ------------------------------------------------------------------------
\* C6
\* ------------------------------------------------------------------------

\* the text c ends in "[" digits "]", the bracket opening at offset p
BracketAtEnd(c, p) ==
    /\ p + 3 <= Len(c)
    /\ At(c, p) = "["
    /\ c[Len(c)] = "]"
    /\ \A q \in (p + 1)..(Len(c) - 2) : IsDigit(At(c, q))

\* the text c without its trailing whitespace
TrimEnd(c) == Slice(c, 0, RStripEnd(c, Len(c)))

\* C6: the marks of every record are the digits N of a "[N]" standing at the
\* very end of its content, trailing whitespace ignored, and "Unknown" when
\* the content does not end in such a bracket.
C6_MarksAtEnd ==
    \A r \in 1..Len(questions_data) :
        LET c == TrimEnd(questions_data[r].complete_content)
            m == questions_data[r].marks
        IN  /\ \A p \in 0..Len(c) :
                  BracketAtEnd(c, p) => m = Slice(c, p + 1, Len(c) - 1)
            /\ (\A p \in 0..Len(c) : ~BracketAtEnd(c, p)) => m = Unknown

\* a record with marks read from its end and a record whose content holds a
\* bracket that is not at its end have been returned
C6_Witness ==
    /\ AtReturn
    /\ \E r \in 1..Len(questions_data) : questions_data[r].marks = <<"1", "2">>
    /\ \E r \in 1..Len(questions_data) :
          /\ questions_data[r].marks = Unknown
          /\ Contains(questions_data[r].complete_content, <<"[", "1", "2", "]">>)

\* ------------------------------------------------------------------------
\* C7
\* ------------------------------------------------------------------------

\* C7: a marker whose cleaned span is 20 characters or shorter gives no
\* record, every marker whose cleaned span is longer gives exactly one; no
\* record has a content of 20 characters or fewer; a text without markers
\* gives the empty list.
C7_ShortSpansDropped ==
    /\ pc = "extract" =>
          /\ Len(questions_data) = Cardinality({k \in LongSpans : k <= i})
          /\ i <= Len(question_positions)
    /\ \A r \in 1..Len(questions_data) :
          Len(questions_data[r].complete_content) > 20
    /\ (AtReturn /\ Scanned = <<>>) => questions_data = <<>>

\* a marker with a short span was dropped and another marker was kept
C7_Witness ==
    /\ AtReturn
    /\ \E k \in 1..Len(question_positions) :
          /\ k \notin LongSpans
          /\ SpanOf(k) # <<>>
    /\ questions_data # <<>>

\* ------------------------------------------------------------------------
\* C8
\* ------------------------------------------------------------------------

\* the four year forms in the order of the claim
YearForms == <<"day_month_year", "bare_year", "year_label", "session_label">>

\* the forms that match somewhere in the text
FormsFound == {k \in 1..4 : SearchYear(YearForms[k], all_text) # <<>>}

\* the year the leftmost match of form k captures
YearOfForm(k) ==
    LET groups == SearchYear(YearForms[k], all_text)
    IN  groups[Len(groups)]

\* C8: the year is the one captured by the first of the four forms, in list
\* order, that matches anywhere in the text, wherever the other forms
\* stand; it is "Unknown" when no form matches; and every record of the
\* document carries it.
C8_YearByPatternOrder ==
    (pc = "scan" \/ AtReturn) =>
        LET found == FormsFound
            year  == IF found = {} THEN Unknown ELSE YearOfForm(MinOf(found))
        IN  /\ found = {} => current_year = NoYear
            /\ found # {} => current_year = year
            /\ \A r \in 1..Len(questions_data) : questions_data[r].year = year

\* records were returned for a text that holds all four forms, a bare year
\* standing before the day-month-year form
C8_Witness ==
    /\ AtReturn
    /\ questions_data # <<>>
    /\ FormsFound = {1, 2, 3, 4}
    /\ YearOfForm(2) # YearOfForm(1)
    /\ questions_data[1].year = YearOfForm(1)

\* ------------------------------------------------------------------------
\* C9
\* ------------------------------------------------------------------------

\* sub occurs in t, letter case ignored
ContainsNoCase(t, sub) == \E p \in 0..(Len(t) - Len(sub)) : LitAtNoCase(t, p, sub)

\* the entries of the mapping with a keyword that occurs in the preview of q
MatchingLabels(q, mapping) ==
    {n \in 1..Len(mapping) :
        \E w \in 1..Len(mapping[n].keywords) :
            ContainsNoCase(q.question_preview, mapping[n].keywords[w])}

\* C9: bulk_assign_by_keywords sets the chapter of each record to the first
\* label, in the order of the mapping, with a keyword that occurs in the
\* record's question_preview, letter case ignored; a record no label matches
\* keeps the chapter it had; no other field of any record changes.
C9_FirstMatchingLabel ==
    last_bulk # <<>> =>
        LET before  == last_bulk[1].before
            mapping == last_bulk[1].mapping
        IN  /\ Len(questions) = Len(before)
            /\ \A k \in 1..Len(before) :
                  questions[k] =
                     [before[k] EXCEPT !.chapter =
                         IF MatchingLabels(before[k], mapping) = {}
                         THEN before[k].chapter
                         ELSE mapping[MinOf(MatchingLabels(before[k], mapping))].chapter]

\* a bulk assignment has given a record that two labels match the first of
\* them and has left a record no label matches with the chapter selected
\* for it before
C9_Witness ==
    /\ last_bulk # <<>>
    /\ \E k \in 1..Len(questions) :
          /\ Cardinality(MatchingLabels(last_bulk[1].before[k], last_bulk[1].mapping)) = 2
          /\ questions[k].chapter = last_bulk[1].mapping[1].chapter
    /\ \E k \in 1..Len(questions) :
          /\ MatchingLabels(last_bulk[1].before[k], last_bulk[1].mapping) = {}
          /\ last_bulk[1].before[k].chapter \in Range(chapter_names)
          /\ questions[k].chapter = last_bulk[1].before[k].chapter

\* ------------------------------------------------------------------------
\* C10
\* ------------------------------------------------------------------------

\* C10: two calls of extract_questions_with_year on the same pages return
\* identical record lists, whatever calls on other documents come between:
\* the result depends on the pages alone.
C10_SamePagesSameRecords ==
    \A a, b \in 1..Len(returned) :
        returned[a].pdf = returned[b].pdf => returned[a].result = returned[b].result

\* a document was extracted, then another one, then the first one again
C10_Witness ==
    /\ Len(returned) >= 3
    /\ returned[1].pdf = returned[3].pdf
    /\ returned[2].pdf # returned[1].pdf
    /\ returned[1].result # <<>>
    /\ returned[2].result # <<>>

\* ------------------------------------------------------------------------
\* C11
\* ------------------------------------------------------------------------

\* the line "--- PAGE n ---" of a page sentinel stands at offset p of t
SentinelLineAt(t, p) ==
    LET a == p + 9
        b == SkipDigits(t, a)
    IN  /\ LitAt(t, p, <<"-", "-", "-", " ", "P", "A", "G", "E", " ">>)
        /\ b > a
        /\ LitAt(t, b, <<" ", "-", "-", "-">>)

\* t holds the line of a page sentinel
HasSentinelLine(t) == \E p \in 0..(Len(t) - 1) : SentinelLineAt(t, p)

\* C11: the complete_content of every record holds no page sentinel
\* "--- PAGE n ---" and no residue of one, also when the sentinel stands at
\* the very end of the raw span because the next question starts at the top
\* of the next page.
C11_NoSentinelInContent ==
    \A k \in 1..Len(questions_data) :
        ~HasSentinelLine(questions_data[k].complete_content)

\* ------------------------------------------------------------------------
\* C12
\* ------------------------------------------------------------------------

\* the pages the loop of line 18 has gone through
PagesRead == IF pc = "read" THEN page_num ELSE Len(pdf_file)

\* the pages gone through that have text
PagesWithText == {n \in 1..PagesRead : pdf_file[n] # <<>>}

\* the text the pages 1..n give when only the pages with text contribute
RECURSIVE TextOfPages(_)
TextOfPages(n) ==
    IF n = 0 THEN <<>>
    ELSE TextOfPages(n - 1)
         \o (IF pdf_file[n] = <<>> THEN <<>> ELSE Sentinel(n) \o pdf_file[n])

\* the entry of page_breaks with the greatest offset that is at most p
OwningEntry(p) ==
    CHOOSE e \in 1..Len(page_breaks) :
        /\ page_breaks[e].pos <= p
        /\ \A f \in 1..Len(page_breaks) :
              page_breaks[f].pos <= p => page_breaks[f].pos <= page_breaks[e].pos

\* a marker with the number of q stands in the text of the source page n at
\* the place the offset q.start of all_text comes from
MarkerOnPage(q, n) ==
    LET rel == q.start - Len(TextOfPages(n - 1)) - Len(Sentinel(n))
    IN  /\ n \in 1..Len(pdf_file)
        /\ rel >= 0
        /\ QuestionEnd(pdf_file[n], rel) # NoMatch
        /\ QuestionNumber(pdf_file[n], rel) = q.number

\* the sorted markers handled so far that gave a record
Recorded == {k \in LongSpans : k <= i}

\* C12: the recorded page-start offsets are strictly increasing in page
\* order; a page with empty or absent text contributes no offset entry and no
\* text; the page of every record is the page of the entry with the greatest
\* offset that is at most the start of its marker, which is the source page
\* whose text holds the marker.
C12_PageOffsets ==
    /\ \A a, b \in 1..Len(page_breaks) :
          a < b => /\ page_breaks[a].pos < page_breaks[b].pos
                   /\ page_breaks[a].page < page_breaks[b].page
    /\ {page_breaks[e].page : e \in 1..Len(page_breaks)} = PagesWithText
    /\ \A e \in 1..Len(page_breaks) :
          page_breaks[e].pos = Len(TextOfPages(page_breaks[e].page - 1))
    /\ all_text = TextOfPages(PagesRead)
    /\ pc = "extract" =>
          /\ Len(questions_data) = Cardinality(Recorded)
          /\ \A r \in 1..Len(questions_data) :
                LET q == question_positions[Nth(Recorded, r)]
                IN  /\ questions_data[r].page = page_breaks[OwningEntry(q.start)].page
                    /\ MarkerOnPage(q, questions_data[r].page)

\* the first page of a document gave no text and the call returns a record
\* for a marker of the second page, the only entry of page_breaks
C12_Witness ==
    /\ AtReturn
    /\ pdf_file[1] = <<>>
    /\ Len(page_breaks) = 1
    /\ page_breaks[1].page = 2
    /\ \E r \in 1..Len(questions_data) : questions_data[r].page = 2

\* ------------------------------------------------------------------------
\* C13
\* ------------------------------------------------------------------------

\* two records of the list have the same question_number and the same page
HasTwins(qs) ==
    \E a, b \in 1..Len(qs) :
        /\ a # b
        /\ qs[a].question_number = qs[b].question_number
        /\ qs[a].page = qs[b].page

\* C13: a chapter selected for a displayed record is written to that record
\* and to no other record of the session's list, for every list the
\* extractor can return, also one with two records of the same
\* question_number on the same page.
C13_SelectionWritesShownRecord ==
    last_select # <<>> =>
        questions =
            [last_select[1].before EXCEPT
                ![last_select[1].shown].chapter = last_select[1].chapter]

\* the same for the lists without two records of one number and page
C13_WithoutTwins ==
    (last_select # <<>> /\ ~HasTwins(last_select[1].before)) =>
        questions =
            [last_select[1].before EXCEPT
                ![last_select[1].shown].chapter = last_select[1].chapter]
====
